---- MODULE Spec2Model ----
(***************************************************************************)
(* The GraphQL library backend of src/index.js: the resolvers of the       *)
(* Query, Mutation and Subscription types, the request context that turns  *)
(* an authorization header into the current user, and the BOOK_ADDED       *)
(* publish/subscribe channel, over the three collections (users, books,    *)
(* authors) of the document store.                                         *)
(*                                                                         *)
(* Every `await` of a multi-step resolver is a point where other requests  *)
(* run: addBook and editAuthor are modelled as one action per segment      *)
(* between awaits, executed by one of the request handlers of Procs.       *)
(* Resolvers with a single store operation are one action each.            *)
(*                                                                         *)
(* Optional values (JavaScript null and undefined, both falsy) are the     *)
(* empty sequence None; a present value x is Some(x) = <<x>>.              *)
(***************************************************************************)
EXTENDS Integers, Sequences, FiniteSets, TLC

\* ------------------------------------------------------------------ bounds
\* addBook calls admitted past the authentication check (each constructs a Book)
MaxBooks == 2
\* User documents the store holds
MaxUsers == 2

\* ------------------------------------------------------------------ inputs
Procs == {"p1", "p2"}
Clients == {"c1", "c2"}

UsernameInputs == {"ann", "bob", "cat", ""}
FavoriteGenreInputs == {"crime"}
PasswordInputs == {"secred", "secret"}
TitleInputs == {"Emma", ""}
AuthorNameInputs == {"Austen", "Eliot"}
PublishedInputs == {1815}
GenreListInputs == {<<"crime">>, <<"classic", "">>}
GenreInputs == {"crime", "classic", "", "poetry"}
BornInputs == {1775}
BearerSchemeInputs == {"bearer", "Bearer"}
OtherSchemeInputs == {"basic"}
EditNameInputs == AuthorNameInputs \cup {"Nobody"}

None == <<>>
Some(x) == <<x>>

\* ------------------------------------------------------------------ state
VARIABLES
  users,        \* the User collection: set of [id, username, favoriteGenre]
  authors,      \* the Author collection: set of [id, name, born, books, v]
  books,        \* the Book collection: set of [id, title, published, genres, author]
  nextUser,     \* ObjectIds handed to User documents so far
  nextBook,     \* ObjectIds handed to Book documents so far
  nextAuthor,   \* ObjectIds handed to Author documents so far
  pc,           \* where each request handler's resolver is suspended
  call,         \* the suspended resolver's locals
  subscribed,   \* clients holding a BOOK_ADDED async iterator
  inbox,        \* each iterator's queue of published, undelivered payloads
  received,     \* the Book ids each client has been sent, in order
  subAt,        \* how many events had been published when the client subscribed
  published,    \* the Book ids published on BOOK_ADDED, in publish order
  response      \* the response completed by the last step, if it completed one

vars == <<users, authors, books, nextUser, nextBook, nextAuthor, pc, call,
          subscribed, inbox, received, subAt, published, response>>

store == <<users, authors, books>>
ids == <<nextUser, nextBook, nextAuthor>>
pubsub == <<subscribed, inbox, received, subAt, published>>

\* ------------------------------------------------------------ document store
\* Model.findOne(filter): the first document matching, or null. The store
\* promises no order among several matches, so any of them may be returned.
FindOne(matching) ==
  IF matching = {} THEN {None} ELSE {Some(d) : d \in matching}

\* User.findById(id)
FindUserById(id) ==
  IF \E u \in users : u.id = id
  THEN Some(CHOOSE u \in users : u.id = id)
  ELSE None

\* The User schema's rules as save() applies them: the username is required
\* and unique.
UserSaveError(user) ==
  \/ user.username = ""
  \/ \E u \in users : u.username = user.username

\* The Book schema's rules as validateSync() applies them: title is required.
BookValidateSync(book) ==
  IF book.title = "" THEN Some("ValidationError") ELSE None

\* The Author schema's rules as validateSync() applies them: name is
\* required. No rule makes the name unique.
AuthorValidateSync(author) ==
  IF author.name = "" THEN Some("ValidationError") ELSE None

\* The Author schema's rules as save() applies them to a new document: the
\* validation again, and nothing that rejects a name stored already.
AuthorInsertError(author) == AuthorValidateSync(author) # None

\* ------------------------------------------------------------ tokens
\* config.JWT_SECRET
JWT_SECRET == "config.JWT_SECRET"
\* the one password login accepts
LoginPassword == "secred"

\* The signature of a payload under a key, as an ideal MAC: it is equal to
\* another signature only for the same key and the same payload.
Mac(payload, key) == <<key, payload>>

\* jwt.sign(payload, secret). No expiresIn is passed, so the token never
\* expires; the issued-at stamp jwt adds is not read anywhere and is left out.
JwtSign(payload, secret) == [payload |-> payload, mac |-> Mac(payload, secret)]

\* jwt.verify mistaken for jwt.decode: the payload is read without checking
\* the signature.
JwtDecodeOnly(token, secret) == Some(token.payload)

\* jwt.verify(token, secret): the payload, or None where verify throws.
JwtVerify(token, secret) ==
  IF token.mac = Mac(token.payload, secret) THEN Some(token.payload) ELSE None

\* An ObjectId as JSON carries it: its hexadecimal text.
ToJSON(objectId) == [hex |-> objectId]

\* The ObjectId a query casts such a text back to.
CastObjectId(text) == text.hex

\* The payload login signs for a user.
UserForToken(user) == [username |-> user.username, id |-> ToJSON(user.id)]

\* The token login gives a stored user.
IssuedTokens == {JwtSign(UserForToken(u), JWT_SECRET) : u \in users}

\* Credentials a client may present: the token of a stored user, the same
\* payload signed with another key, the payload of a stored user under the
\* signature of another payload, a well-signed token naming an id no User
\* has, and text that is no token at all.
CredentialInputs ==
  IssuedTokens
    \cup {JwtSign(UserForToken(u), "another secret") : u \in users}
    \cup {[payload |-> UserForToken(u),
           mac |-> Mac([username |-> "eve", id |-> ToJSON(0)], JWT_SECRET)] : u \in users}
    \cup {JwtSign([username |-> "ann", id |-> ToJSON(0)], JWT_SECRET)}
    \cup {[payload |-> [username |-> "", id |-> ToJSON(0)], mac |-> <<>>]}

\* An authorization header is absent (None) or the text
\* scheme ++ " " ++ cred, kept as its two parts: every credential under the
\* bearer scheme in two letter cases, and the issued tokens under another
\* scheme.
HeaderInputs ==
  {None}
    \cup {Some([scheme |-> s, cred |-> c]) : s \in BearerSchemeInputs, c \in CredentialInputs}
    \cup {Some([scheme |-> s, cred |-> c]) : s \in OtherSchemeInputs, c \in IssuedTokens}

\* String.prototype.toLowerCase on the scheme texts
ToLowerCase(s) ==
  CASE s = "Bearer" -> "bearer"
    [] OTHER -> s

\* The context function without the test of the scheme: the credential of
\* any header is verified.
CurrentUserAnyScheme(header) ==
  IF header # None
  THEN LET decodedToken == JwtVerify(header[1].cred, JWT_SECRET)
       IN  IF decodedToken = None THEN None
           ELSE FindUserById(CastObjectId(decodedToken[1].id))
  ELSE None

\* The context function: the current user the request's header yields, None
\* when the function returns no context, no user, or a null user.
CurrentUser(header) ==
  IF header # None /\ ToLowerCase(header[1].scheme) = "bearer"
  THEN LET decodedToken == JwtVerify(header[1].cred, JWT_SECRET)
       IN  IF decodedToken = None THEN None
           ELSE FindUserById(CastObjectId(decodedToken[1].id))
  ELSE None

\* ------------------------------------------------------------ responses
NoResponse == [op |-> "none"]
NoCall == [op |-> "none"]

\* A failed operation: the error GraphQL reports to the caller.
Failure(op, header, args, error) ==
  [op |-> op, header |-> header, args |-> args, error |-> error]

\* A successful operation and the value it resolved to.
Success(op, header, args, value) ==
  [op |-> op, header |-> header, args |-> args, error |-> "", value |-> value]

\* ------------------------------------------------------------ field resolvers
\* Author.bookCount
BookCount(parent) == Len(parent.books)

\* GraphQL's Int: a JavaScript number is serialized, anything else is the
\* error "Int cannot represent non-integer value".
SerializeInt(v) ==
  IF v.type = "number" THEN Some(v.val) ELSE None

\* ------------------------------------------------------------ queries
\* Query.bookCount: resolves to the collection's countDocuments method
\* itself, which is never called.
BookCountResolver == [type |-> "function", name |-> "Book.collection.countDocuments"]

\* Query.authorCount: likewise.
AuthorCountResolver == [type |-> "function", name |-> "Author.collection.countDocuments"]

\* populate("author"): the Book with its author id replaced by the stored
\* Author of that id, None when there is none.
Populate(book) ==
  LET found == {a \in authors : Some(a.id) = book.author}
  IN  [book EXCEPT !.author = IF found = {} THEN None ELSE Some(CHOOSE a \in found : TRUE)]

\* The filter allBooks hands to Book.find once the author, if any, is
\* looked up: a falsy argument (absent, or the empty string) adds no
\* condition. {$in: genre} with a single string is cast to {$in: [genre]}.
GenreFilter(genre) ==
  IF genre # None /\ genre[1] # "" THEN Some(genre[1]) ELSE None

\* Book.find(filters)
BookFind(authorId, genre) ==
  {b \in books :
     /\ authorId = None \/ b.author = authorId
     /\ genre = None \/ \E i \in 1..Len(b.genres) : b.genres[i] = genre[1]}

\* Query.bookCount
BookCountQuery ==
  /\ response' = (LET v == SerializeInt(BookCountResolver)
                  IN  IF v = None
                      THEN Failure("bookCount", None, None, "INTERNAL_SERVER_ERROR")
                      ELSE Success("bookCount", None, None, v[1]))
  /\ UNCHANGED <<store, ids, pc, call, pubsub>>

\* Query.authorCount
AuthorCountQuery ==
  /\ response' = (LET v == SerializeInt(AuthorCountResolver)
                  IN  IF v = None
                      THEN Failure("authorCount", None, None, "INTERNAL_SERVER_ERROR")
                      ELSE Success("authorCount", None, None, v[1]))
  /\ UNCHANGED <<store, ids, pc, call, pubsub>>

\* Query.allBooks(author, genre). With an author name that matches nothing,
\* author._id is read off null and the resolver throws a TypeError. No Book
\* or Author is ever removed, so the populate that follows the find resolves
\* the Books found whatever runs in between.
AllBooksQuery(args) ==
  /\ \E author \in (IF args.author # None /\ args.author[1] # ""
                    THEN FindOne({a \in authors : a.name = args.author[1]})
                    ELSE {None}) :
       response' =
         IF args.author # None /\ args.author[1] # "" /\ author = None
         THEN Failure("allBooks", None, args, "INTERNAL_SERVER_ERROR")
         ELSE Success("allBooks", None, args,
                {Populate(b) : b \in BookFind(IF author = None THEN None ELSE Some(author[1].id),
                                              GenreFilter(args.genre))})
  /\ UNCHANGED <<store, ids, pc, call, pubsub>>

\* Query.allAuthors
AllAuthorsQuery ==
  /\ response' = Success("allAuthors", None, None, authors)
  /\ UNCHANGED <<store, ids, pc, call, pubsub>>

\* Query.me
Me(header) ==
  /\ response' = (LET currentUser == CurrentUser(header)
                  IN  IF currentUser = None
                      THEN Failure("me", header, None, "AuthenticationError")
                      ELSE Success("me", header, None, currentUser[1]))
  /\ UNCHANGED <<store, ids, pc, call, pubsub>>

\* ------------------------------------------------------------ users
\* Mutation.createUser. dbOk is whether the store takes the write.
CreateUser(username, favoriteGenre, dbOk) ==
  LET user == [id |-> nextUser + 1, username |-> username,
               favoriteGenre |-> favoriteGenre]
      args == [username |-> username, favoriteGenre |-> favoriteGenre]
  IN  IF dbOk /\ ~UserSaveError(user)
      THEN /\ nextUser < MaxUsers
           /\ users' = users \cup {user}
           /\ nextUser' = nextUser + 1
           /\ response' = Success("createUser", None, args, user)
           /\ UNCHANGED <<authors, books, nextBook, nextAuthor, pc, call, pubsub>>
      ELSE /\ response' = Failure("createUser", None, args, "UserInputError")
           /\ UNCHANGED <<store, ids, pc, call, pubsub>>

\* login signing the token with the password argument instead of the secret.
LoginSignsWithPassword(username, password) ==
  LET args == [username |-> username, password |-> password]
  IN  /\ \E user \in FindOne({u \in users : u.username = username}) :
           response' =
             IF user = None \/ password # LoginPassword
             THEN Failure("login", None, args, "UserInputError")
             ELSE Success("login", None, args,
                          [value |-> JwtSign(UserForToken(user[1]), password)])
      /\ UNCHANGED <<store, ids, pc, call, pubsub>>

\* Mutation.login
Login(username, password) ==
  LET args == [username |-> username, password |-> password]
  IN  /\ \E user \in FindOne({u \in users : u.username = username}) :
           response' =
             IF user = None \/ password # LoginPassword
             THEN Failure("login", None, args, "UserInputError")
             ELSE Success("login", None, args,
                          [value |-> JwtSign(UserForToken(user[1]), JWT_SECRET)])
      /\ UNCHANGED <<store, ids, pc, call, pubsub>>

\* ------------------------------------------------------------ addBook
\* new Book({...args}): the author argument is a name, which does not cast
\* to an ObjectId, so the author path is unset until it is assigned.
NewBook(id, args) ==
  [id |-> id, title |-> args.title, published |-> args.published,
   genres |-> args.genres, author |-> None]

\* new Author({name, born: null})
NewAuthor(id, name) ==
  [id |-> id, name |-> name, born |-> None, books |-> <<>>, v |-> 0]

\* The Book's id left out of the Author's list.
AppendBookForgotten(bookList, bookId) == bookList

\* author.books = [...author.books, addedBook._id]
AppendBook(bookList, bookId) == Append(bookList, bookId)

\* addedBook.author = author._id
SetAuthor(book, author) == [book EXCEPT !.author = Some(author.id)]

\* A publish that puts the payload ahead of what an iterator already holds.
PublishAhead(queues, bookId) ==
  [c \in Clients |-> IF c \in subscribed THEN <<bookId>> \o queues[c] ELSE queues[c]]

\* pubsub.publish("BOOK_ADDED", ...): the payload is queued for every
\* iterator subscribed at this moment, behind what it already holds.
Publish(queues, bookId) ==
  [c \in Clients |-> IF c \in subscribed THEN Append(queues[c], bookId) ELSE queues[c]]

\* The Author each stored id had, with its book count, when a call arrived:
\* kept to compare the counts before and after the call.
BookCounts == {<<a.id, BookCount(a)>> : a \in authors}

\* From the call's arrival to its first await: the context is built, the
\* current user is checked, the Book is constructed and the Author is asked
\* for. The context's own await of User.findById is not a separate step: no
\* User is ever changed or removed, so what runs in between cannot change
\* the user it finds.
AddBookBegin(p, header, args) ==
  /\ pc[p] = "idle"
  /\ IF CurrentUser(header) = None
     THEN /\ response' = Failure("addBook", header, args, "AuthenticationError")
          /\ UNCHANGED <<store, ids, pc, call, pubsub>>
     ELSE /\ nextBook < MaxBooks
          /\ nextBook' = nextBook + 1
          /\ pc' = [pc EXCEPT ![p] = "addBook:findAuthor"]
          /\ call' = [call EXCEPT ![p] =
                        [op |-> "addBook", header |-> header, args |-> args,
                         addedBook |-> NewBook(nextBook + 1, args),
                         countsAtCall |-> BookCounts]]
          /\ response' = NoResponse
          /\ UNCHANGED <<store, nextUser, nextAuthor, pubsub>>

\* Author.findOne answers: the Author found, or a new one, takes the Book's
\* id; the Book takes the Author's; both are validated and the Book's save
\* is started.
AddBookFindAuthor(p) ==
  /\ pc[p] = "addBook:findAuthor"
  /\ \E found \in FindOne({a \in authors : a.name = call[p].args.author}) :
       LET author0 == IF found # None THEN found[1]
                      ELSE NewAuthor(nextAuthor + 1, call[p].args.author)
           author == [author0 EXCEPT !.books = AppendBook(author0.books, call[p].addedBook.id)]
           addedBook == SetAuthor(call[p].addedBook, author)
           errors == <<BookValidateSync(addedBook), AuthorValidateSync(author)>>
       IN  /\ nextAuthor' = IF found = None THEN nextAuthor + 1 ELSE nextAuthor
           /\ IF \E i \in 1..2 : errors[i] # None
              THEN /\ response' = Failure("addBook", call[p].header, call[p].args, "UserInputError")
                   /\ pc' = [pc EXCEPT ![p] = "idle"]
                   /\ call' = [call EXCEPT ![p] = NoCall]
              ELSE /\ response' = NoResponse
                   /\ pc' = [pc EXCEPT ![p] = "addBook:saveBook"]
                   /\ call' = [call EXCEPT ![p] =
                                 [op |-> "addBook", header |-> call[p].header,
                                  args |-> call[p].args,
                                  addedBook |-> addedBook, author |-> author,
                                  isNew |-> (found = None),
                                  countAtLookup |-> BookCount(author0),
                                  countsAtCall |-> call[p].countsAtCall]]
  /\ UNCHANGED <<store, nextUser, nextBook, pubsub>>

\* addedBook.save() answers. On success the Author's save is started.
AddBookSaveBook(p, dbOk) ==
  /\ pc[p] = "addBook:saveBook"
  /\ IF dbOk
     THEN /\ books' = books \cup {call[p].addedBook}
          /\ pc' = [pc EXCEPT ![p] = "addBook:saveAuthor"]
          /\ response' = NoResponse
          /\ UNCHANGED call
     ELSE /\ response' = Failure("addBook", call[p].header, call[p].args, "UserInputError")
          /\ pc' = [pc EXCEPT ![p] = "idle"]
          /\ call' = [call EXCEPT ![p] = NoCall]
          /\ UNCHANGED books
  /\ UNCHANGED <<users, authors, ids, pubsub>>

\* An Author save keyed by the name: a new Author whose name is stored
\* already is merged into the stored one instead of being inserted.
AuthorSaveByName(author, isNew, dbOk) ==
  IF ~dbOk THEN None
  ELSE IF isNew /\ ~\E a \in authors : a.name = author.name
  THEN Some(authors \cup {author})
  ELSE IF isNew
  THEN LET old == CHOOSE a \in authors : a.name = author.name
       IN  Some({IF a = old THEN [a EXCEPT !.books = a.books \o author.books] ELSE a :
                   a \in authors})
  ELSE IF \E a \in authors : a.id = author.id /\ a.v = author.v
  THEN Some({IF a.id = author.id
             THEN [a EXCEPT !.books = author.books, !.v = a.v + 1]
             ELSE a : a \in authors})
  ELSE None

\* What author.save() leaves in the collection, None where it throws. A new
\* Author is inserted if the schema's rules pass. A loaded one is updated
\* where its id and its version still match: the book list, assigned as a
\* whole, is written and the version incremented; a stale version is a
\* VersionError.
AuthorSave(author, isNew, dbOk) ==
  IF ~dbOk THEN None
  ELSE IF isNew
  THEN (IF AuthorInsertError(author) THEN None ELSE Some(authors \cup {author}))
  ELSE IF \E a \in authors : a.id = author.id /\ a.v = author.v
  THEN Some({IF a.id = author.id
             THEN [a EXCEPT !.books = author.books, !.v = a.v + 1]
             ELSE a : a \in authors})
  ELSE None

\* author.save() answers. On success the populate is started, the pending
\* response is published on BOOK_ADDED and returned.
AddBookSaveAuthor(p, dbOk) ==
  /\ pc[p] = "addBook:saveAuthor"
  /\ LET saved == AuthorSave(call[p].author, call[p].isNew, dbOk)
     IN  IF saved # None
         THEN /\ authors' = saved[1]
              /\ inbox' = Publish(inbox, call[p].addedBook.id)
              /\ published' = Append(published, call[p].addedBook.id)
              /\ pc' = [pc EXCEPT ![p] = "addBook:populate"]
              /\ response' = NoResponse
              /\ UNCHANGED <<call, subscribed, received, subAt>>
         ELSE /\ response' = Failure("addBook", call[p].header, call[p].args, "UserInputError")
              /\ pc' = [pc EXCEPT ![p] = "idle"]
              /\ call' = [call EXCEPT ![p] = NoCall]
              /\ UNCHANGED <<authors, pubsub>>
  /\ UNCHANGED <<users, books, ids>>

\* The populate answers: the call's response is the Book with its Author.
AddBookPopulate(p) ==
  /\ pc[p] = "addBook:populate"
  /\ response' = [op |-> "addBook", header |-> call[p].header, args |-> call[p].args,
                   error |-> "", value |-> Populate(call[p].addedBook),
                   countsAtCall |-> call[p].countsAtCall]
  /\ pc' = [pc EXCEPT ![p] = "idle"]
  /\ call' = [call EXCEPT ![p] = NoCall]
  /\ UNCHANGED <<store, ids, pubsub>>

\* ------------------------------------------------------------ editAuthor
\* From the call's arrival to its first await: the context is built, the
\* current user is checked and the Author is asked for.
EditAuthorBegin(p, header, args) ==
  /\ pc[p] = "idle"
  /\ IF CurrentUser(header) = None
     THEN /\ response' = Failure("editAuthor", header, args, "AuthenticationError")
          /\ UNCHANGED <<pc, call>>
     ELSE /\ pc' = [pc EXCEPT ![p] = "editAuthor:findAuthor"]
          /\ call' = [call EXCEPT ![p] = [op |-> "editAuthor", header |-> header, args |-> args]]
          /\ response' = NoResponse
  /\ UNCHANGED <<store, ids, pubsub>>

\* editAuthor as an upsert: without an Author of the name, one is created
\* with the birth year and saved.
EditAuthorFindAuthorUpsert(p) ==
  /\ pc[p] = "editAuthor:findAuthor"
  /\ \E editedAuthor \in FindOne({a \in authors : a.name = call[p].args.name}) :
       LET doc == IF editedAuthor = None
                  THEN NewAuthor(nextAuthor + 1, call[p].args.name)
                  ELSE editedAuthor[1]
       IN  /\ response' = NoResponse
           /\ pc' = [pc EXCEPT ![p] = "editAuthor:save"]
           /\ call' = [call EXCEPT ![p] =
                         [op |-> "editAuthor", header |-> call[p].header, args |-> call[p].args,
                          editedAuthor |-> [doc EXCEPT !.born = Some(call[p].args.setBornTo)]]]
           /\ authors' = IF editedAuthor = None THEN authors \cup {doc} ELSE authors
           /\ nextAuthor' = IF editedAuthor = None THEN nextAuthor + 1 ELSE nextAuthor
  /\ UNCHANGED <<users, books, nextUser, nextBook, pubsub>>

\* Author.findOne answers: without an Author the call fails; with one, the
\* birth year is assigned and the save is started.
EditAuthorFindAuthor(p) ==
  /\ pc[p] = "editAuthor:findAuthor"
  /\ \E editedAuthor \in FindOne({a \in authors : a.name = call[p].args.name}) :
       IF editedAuthor = None
       THEN /\ response' = Failure("editAuthor", call[p].header, call[p].args, "UserInputError")
            /\ pc' = [pc EXCEPT ![p] = "idle"]
            /\ call' = [call EXCEPT ![p] = NoCall]
       ELSE /\ response' = NoResponse
            /\ pc' = [pc EXCEPT ![p] = "editAuthor:save"]
            /\ call' = [call EXCEPT ![p] =
                          [op |-> "editAuthor", header |-> call[p].header, args |-> call[p].args,
                           editedAuthor |-> [editedAuthor[1] EXCEPT
                                               !.born = Some(call[p].args.setBornTo)]]]
  /\ UNCHANGED <<store, ids, pubsub>>

\* What editedAuthor.save() leaves in the collection, None where it throws:
\* only the birth year was assigned, so only it is written, to the document
\* of that id, whatever its version.
EditedAuthorSave(editedAuthor, dbOk) ==
  IF ~dbOk THEN None
  ELSE Some({IF a.id = editedAuthor.id THEN [a EXCEPT !.born = editedAuthor.born] ELSE a :
               a \in authors})

\* editedAuthor.save() answers: the call returns the document it holds.
EditAuthorSave(p, dbOk) ==
  /\ pc[p] = "editAuthor:save"
  /\ LET saved == EditedAuthorSave(call[p].editedAuthor, dbOk)
     IN  IF saved # None
         THEN /\ authors' = saved[1]
              /\ response' = Success("editAuthor", call[p].header, call[p].args,
                                     call[p].editedAuthor)
         ELSE /\ response' = Failure("editAuthor", call[p].header, call[p].args, "UserInputError")
              /\ UNCHANGED authors
  /\ pc' = [pc EXCEPT ![p] = "idle"]
  /\ call' = [call EXCEPT ![p] = NoCall]
  /\ UNCHANGED <<users, books, ids, pubsub>>

\* ------------------------------------------------------------ bookAdded
\* Subscription.bookAdded.subscribe: a new iterator on BOOK_ADDED with an
\* empty queue.
Subscribe(c) ==
  /\ c \notin subscribed
  /\ subscribed' = subscribed \cup {c}
  /\ subAt' = [subAt EXCEPT ![c] = Len(published)]
  /\ response' = NoResponse
  /\ UNCHANGED <<store, ids, pc, call, inbox, received, published>>

\* The payload published for a Book is the pending populate of the call
\* that added it.
PayloadPending(bookId) ==
  \E p \in Procs : pc[p] = "addBook:populate" /\ call[p].addedBook.id = bookId

\* The iterator hands the client its next payload: the oldest it holds,
\* once that payload has resolved.
Deliver(c) ==
  /\ c \in subscribed
  /\ inbox[c] # <<>>
  /\ ~PayloadPending(Head(inbox[c]))
  /\ received' = [received EXCEPT ![c] = Append(received[c], Head(inbox[c]))]
  /\ inbox' = [inbox EXCEPT ![c] = Tail(inbox[c])]
  /\ response' = NoResponse
  /\ UNCHANGED <<store, ids, pc, call, subscribed, subAt, published>>

\* ------------------------------------------------------------ the server
Init ==
  /\ users = {}
  /\ authors = {}
  /\ books = {}
  /\ nextUser = 0
  /\ nextBook = 0
  /\ nextAuthor = 0
  /\ pc = [p \in Procs |-> "idle"]
  /\ call = [p \in Procs |-> NoCall]
  /\ subscribed = {}
  /\ inbox = [c \in Clients |-> <<>>]
  /\ received = [c \in Clients |-> <<>>]
  /\ subAt = [c \in Clients |-> 0]
  /\ published = <<>>
  /\ response = NoResponse

AddBookArgs(titles, names, genreLists) ==
  [title : titles, author : names, published : PublishedInputs, genres : genreLists]

EditAuthorArgs(names) == [name : names, setBornTo : BornInputs]

AllBooksArgs ==
  [author : {None} \cup {Some(n) : n \in EditNameInputs},
   genre : {None} \cup {Some(g) : g \in GenreInputs}]

\* The header of a client that presents the token login gave a stored user.
IssuedHeaders == {Some([scheme |-> "bearer", cred |-> t]) : t \in IssuedTokens}

\* Concurrent requests of logged-in clients on the catalogue.
Next ==
  \/ \E g \in FavoriteGenreInputs : CreateUser("ann", g, TRUE)
  \/ \E p \in Procs, h \in IssuedHeaders,
        args \in AddBookArgs(TitleInputs, AuthorNameInputs, {<<"crime">>}) :
          AddBookBegin(p, h, args)
  \/ \E p \in Procs : AddBookFindAuthor(p)
  \/ \E p \in Procs, ok \in BOOLEAN : AddBookSaveBook(p, ok)
  \/ \E p \in Procs, ok \in BOOLEAN : AddBookSaveAuthor(p, ok)
  \/ \E p \in Procs : AddBookPopulate(p)
  \/ \E p \in Procs, h \in IssuedHeaders, args \in EditAuthorArgs(EditNameInputs) :
          EditAuthorBegin(p, h, args)
  \/ \E p \in Procs : EditAuthorFindAuthor(p)
  \/ \E p \in Procs, ok \in BOOLEAN : EditAuthorSave(p, ok)

Spec == Init /\ [][Next]_vars

\* Requests under every shape of authorization header, with users being
\* created and logging in.
AuthNext ==
  \/ \E u \in UsernameInputs, g \in FavoriteGenreInputs, ok \in BOOLEAN : CreateUser(u, g, ok)
  \/ \E u \in UsernameInputs, pw \in PasswordInputs : Login(u, pw)
  \/ \E h \in HeaderInputs : Me(h)
  \/ \E p \in {"p1"}, h \in HeaderInputs,
        args \in AddBookArgs({"Emma"}, {"Austen"}, {<<"crime">>}) :
          AddBookBegin(p, h, args)
  \/ \E p \in {"p1"} : AddBookFindAuthor(p)
  \/ \E p \in {"p1"} : AddBookSaveBook(p, TRUE)
  \/ \E p \in {"p1"} : AddBookSaveAuthor(p, TRUE)
  \/ \E p \in {"p1"} : AddBookPopulate(p)
  \/ \E p \in {"p1"}, h \in HeaderInputs, args \in EditAuthorArgs({"Austen", "Nobody"}) :
          EditAuthorBegin(p, h, args)
  \/ \E p \in {"p1"} : EditAuthorFindAuthor(p)
  \/ \E p \in {"p1"} : EditAuthorSave(p, TRUE)

AuthSpec == Init /\ [][AuthNext]_vars

\* editAuthor calls, with and without a current user, among concurrent
\* addBook calls.
EditNext ==
  \/ \E g \in FavoriteGenreInputs : CreateUser("ann", g, TRUE)
  \/ \E p \in Procs, h \in IssuedHeaders,
        args \in AddBookArgs({"Emma"}, {"Austen"}, {<<"crime">>}) :
          AddBookBegin(p, h, args)
  \/ \E p \in Procs : AddBookFindAuthor(p)
  \/ \E p \in Procs : AddBookSaveBook(p, TRUE)
  \/ \E p \in Procs, ok \in BOOLEAN : AddBookSaveAuthor(p, ok)
  \/ \E p \in Procs : AddBookPopulate(p)
  \/ \E p \in Procs, h \in {None} \cup IssuedHeaders,
        args \in EditAuthorArgs({"Austen", "Nobody"}) :
          EditAuthorBegin(p, h, args)
  \/ \E p \in Procs : EditAuthorFindAuthor(p)
  \/ \E p \in Procs, ok \in BOOLEAN : EditAuthorSave(p, ok)

EditSpec == Init /\ [][EditNext]_vars

\* Queries over the catalogue that concurrent addBook calls build.
QueryNext ==
  \/ \E g \in FavoriteGenreInputs : CreateUser("ann", g, TRUE)
  \/ \E p \in Procs, h \in IssuedHeaders,
        args \in AddBookArgs({"Emma"}, AuthorNameInputs, GenreListInputs) :
          AddBookBegin(p, h, args)
  \/ \E p \in Procs : AddBookFindAuthor(p)
  \/ \E p \in Procs, ok \in BOOLEAN : AddBookSaveBook(p, ok)
  \/ \E p \in Procs, ok \in BOOLEAN : AddBookSaveAuthor(p, ok)
  \/ \E p \in Procs : AddBookPopulate(p)
  \/ BookCountQuery
  \/ AuthorCountQuery
  \/ AllAuthorsQuery
  \/ \E args \in AllBooksArgs : AllBooksQuery(args)

QuerySpec == Init /\ [][QueryNext]_vars

\* Subscribers of bookAdded while concurrent addBook calls publish.
SubNext ==
  \/ \E g \in FavoriteGenreInputs : CreateUser("ann", g, TRUE)
  \/ \E p \in Procs, h \in IssuedHeaders,
        args \in AddBookArgs({"Emma"}, {"Austen"}, {<<"crime">>}) :
          AddBookBegin(p, h, args)
  \/ \E p \in Procs : AddBookFindAuthor(p)
  \/ \E p \in Procs, ok \in BOOLEAN : AddBookSaveBook(p, ok)
  \/ \E p \in Procs, ok \in BOOLEAN : AddBookSaveAuthor(p, ok)
  \/ \E p \in Procs : AddBookPopulate(p)
  \/ \E c \in Clients : Subscribe(c)
  \/ \E c \in Clients : Deliver(c)

SubSpec == Init /\ [][SubNext]_vars

\* ================================================================ claims
\* The four ways a request carries no current user: no authorization
\* header, a scheme that is not bearer in any letter case, a token the
\* secret does not verify, a verified token naming an id no stored User has.
NoValidBearer(header) ==
  \/ header = None
  \/ header[1].scheme \notin {"bearer", "Bearer"}
  \/ header[1].cred.mac # Mac(header[1].cred.payload, JWT_SECRET)
  \/ ~\E u \in users : ToJSON(u.id) = header[1].cred.payload.id

\* Book.find({}).populate("author"): what allBooks returns without a filter.
AllBooksUnfiltered == {Populate(b) : b \in BookFind(None, None)}

\* ---------------------------------------------------------------- C1
\* C1: an addBook call whose request has no current user (no header, a
\* non-bearer header, a token that fails verification, a token whose user
\* does not exist) fails with an authentication error, and the step leaves
\* the Books, the Authors with their book lists and the Users as they were
\* and publishes nothing on BOOK_ADDED.
C1_UnauthenticatedAddBookWritesNothing ==
  [][(response'.op = "addBook" /\ NoValidBearer(response'.header))
       => /\ response'.error = "AuthenticationError"
          /\ books' = books
          /\ authors' = authors
          /\ users' = users
          /\ published' = published
          /\ inbox' = inbox]_vars

\* C1's case: with a Book and its Author stored, an addBook call presenting
\* a well-signed token of a user that does not exist has been refused.
C1_Witness ==
  /\ response.op = "addBook"
  /\ response.error = "AuthenticationError"
  /\ response.header # None
  /\ response.header[1].scheme = "Bearer"
  /\ response.header[1].cred.mac = Mac(response.header[1].cred.payload, JWT_SECRET)
  /\ books # {}
  /\ authors # {}

\* ---------------------------------------------------------------- C7
\* C7: whatever the authorization header (none, a non-bearer scheme, a
\* token that fails verification, a token of a missing User), building the
\* context raises nothing, and me, addBook and editAuthor each answer with
\* an authentication error.
C7_NoCurrentUserMeansAuthenticationError ==
  (response.op \in {"me", "addBook", "editAuthor"} /\ NoValidBearer(response.header))
    => response.error = "AuthenticationError"

\* C7's case: me has been refused for a bearer token signed with another
\* key, while a User is stored.
C7_Witness ==
  /\ response.op = "me"
  /\ response.error = "AuthenticationError"
  /\ response.header # None
  /\ response.header[1].scheme = "bearer"
  /\ response.header[1].cred.mac # Mac(response.header[1].cred.payload, JWT_SECRET)
  /\ \E u \in users : ToJSON(u.id) = response.header[1].cred.payload.id

\* ---------------------------------------------------------------- C6
\* C6: a createUser that succeeds stores the User; a login with a stored
\* username and the shared secret succeeds, and the token of every
\* successful login carries the username and the id of the one stored User
\* of that name, and as a bearer credential (in either letter case of the
\* scheme) makes exactly that User the current user.
C6_LoginTokenIdentifiesUser ==
  /\ (response.op = "createUser" /\ response.error = "")
       => /\ response.value \in users
          /\ response.value.username = response.args.username
  /\ (response.op = "login" /\ response.args.password = LoginPassword
        /\ \E u \in users : u.username = response.args.username)
       => response.error = ""
  /\ (response.op = "login" /\ response.error = "")
       => LET token == response.value.value
              named == {u \in users : u.username = response.args.username}
          IN  /\ Cardinality(named) = 1
              /\ \A u \in named :
                   /\ JwtVerify(token, JWT_SECRET) =
                        Some([username |-> u.username, id |-> ToJSON(u.id)])
                   /\ \A s \in {"bearer", "Bearer"} :
                        CurrentUser(Some([scheme |-> s, cred |-> token])) = Some(u)

\* C6's case: with two Users stored, the second one created has logged in.
C6_Witness ==
  /\ response.op = "login"
  /\ response.error = ""
  /\ Cardinality(users) = 2
  /\ response.value.value.payload.id = ToJSON(2)

\* ---------------------------------------------------------------- C5
\* An editAuthor call of handler p gets the answer of its Author lookup in
\* this step.
EditAuthorLooksUp(p) ==
  pc[p] = "editAuthor:findAuthor" /\ pc'[p] # "editAuthor:findAuthor"

\* C5 as stated: an editAuthor call whose name matches no stored Author
\* fails with a user input error and changes nothing stored.
C5_AsStated ==
  [][/\ (response'.op = "editAuthor"
          /\ ~\E a \in authors : a.name = response'.args.name)
         => /\ response'.error = "UserInputError"
            /\ authors' = authors
            /\ books' = books
     /\ \A p \in Procs :
          (EditAuthorLooksUp(p) /\ ~\E a \in authors : a.name = call[p].args.name)
            => /\ response'.op = "editAuthor"
               /\ response'.error = "UserInputError"
               /\ authors' = authors
               /\ books' = books]_vars

\* C5 amended: an editAuthor call whose name matches no stored Author
\* changes nothing stored, and fails with a user input error when the
\* request has a current user, with an authentication error when it has
\* none; a call that finds no Author when it looks the name up ends there.
C5_UnknownAuthorChangesNothing ==
  [][/\ (response'.op = "editAuthor"
          /\ ~\E a \in authors : a.name = response'.args.name)
         => /\ response'.error =
                 (IF NoValidBearer(response'.header)
                  THEN "AuthenticationError" ELSE "UserInputError")
            /\ authors' = authors
            /\ books' = books
     /\ \A p \in Procs :
          (EditAuthorLooksUp(p) /\ ~\E a \in authors : a.name = call[p].args.name)
            => /\ response'.op = "editAuthor"
               /\ response'.error = "UserInputError"
               /\ pc'[p] = "idle"
               /\ authors' = authors
               /\ books' = books]_vars

\* C5's case: with an Author stored, an authenticated editAuthor naming
\* another has failed with a user input error.
C5_Witness ==
  /\ response.op = "editAuthor"
  /\ response.error = "UserInputError"
  /\ ~NoValidBearer(response.header)
  /\ authors # {}
  /\ ~\E a \in authors : a.name = response.args.name

\* ---------------------------------------------------------------- C2
\* The count an Author id had when a call arrived: none for an Author that
\* was not stored then.
CountAtCall(counts, authorId) ==
  IF \E c \in counts : c[1] = authorId
  THEN (CHOOSE c \in counts : c[1] = authorId)[2]
  ELSE 0

\* C2 as stated: once an addBook call has returned successfully, allBooks
\* without a filter holds the new Book with its author resolved to an Author
\* of the name given, and that Author's bookCount is exactly one more than
\* before the call (one for an Author the call created).
C2_AsStated ==
  (response.op = "addBook" /\ response.error = "")
    => \E b \in AllBooksUnfiltered :
         /\ b.id = response.value.id
         /\ b.author # None
         /\ b.author[1].name = response.args.author
         /\ BookCount(b.author[1]) = CountAtCall(response.countsAtCall, b.author[1].id) + 1

\* Handler p's addBook call has its Author saved in this step: it publishes
\* and returns its pending response.
AddBookSaves(p) ==
  pc[p] = "addBook:saveAuthor" /\ pc'[p] = "addBook:populate"

\* C2 amended: when an addBook call's Author save succeeds, which is when
\* it returns, allBooks without a filter holds the new Book with its author
\* resolved to an Author of the name given, and that Author's bookCount is
\* exactly one more than the count the call read when it looked the Author
\* up (one for an Author the call created).
C2_BookListedAndCountedOnce ==
  [][\A p \in Procs :
       AddBookSaves(p)
         => \E b \in AllBooksUnfiltered' :
              /\ b.id = call[p].addedBook.id
              /\ b.author # None
              /\ b.author[1].id = call[p].author.id
              /\ b.author[1].name = call[p].args.author
              /\ BookCount(b.author[1]) = call[p].countAtLookup + 1]_vars

\* C2's case: a call has just saved an Author that was stored before with
\* one Book, and the Author now lists two.
C2_Witness ==
  \E p \in Procs :
    /\ pc[p] = "addBook:populate"
    /\ ~call[p].isNew
    /\ call[p].countAtLookup = 1
    /\ \E a \in authors : a.id = call[p].author.id /\ BookCount(a) = 2

\* ---------------------------------------------------------------- C4
\* Every stored Book references a stored Author that lists it, and every id
\* an Author lists is a stored Book of that Author.
BooksAndListsAgree ==
  /\ \A b \in books :
       \E a \in authors :
         /\ b.author = Some(a.id)
         /\ \E i \in 1..Len(a.books) : a.books[i] = b.id
  /\ \A a \in authors :
       \A i \in 1..Len(a.books) :
         \E b \in books : b.id = a.books[i] /\ b.author = Some(a.id)

\* C4: once an addBook call has finished, with a result or an error, and no
\* other is under way, the Books' author references and the Authors' book
\* lists agree.
C4_AsStated ==
  (response.op = "addBook" /\ \A p \in Procs : call[p].op # "addBook")
    => BooksAndListsAgree

\* ---------------------------------------------------------------- C10
\* C10: when an addBook call that found no Author of its name saves its new
\* Author while an Author of that name is stored, both stay stored under
\* the one name: the new one lists the call's Book and nothing else, and
\* the one stored before does not list it.
C10_RacingCallsStoreTwoAuthors ==
  [][\A p \in Procs :
       (AddBookSaves(p) /\ call[p].isNew
          /\ \E a \in authors : a.name = call[p].args.author)
         => \E old, new \in authors' :
              /\ old \in authors
              /\ new.id = call[p].author.id
              /\ old.id # new.id
              /\ old.name = new.name
              /\ new.books = <<call[p].addedBook.id>>
              /\ \A i \in 1..Len(old.books) : old.books[i] # call[p].addedBook.id]_vars

\* C10's case: two calls for one name have both finished, and two Authors
\* of that name are stored, each listing one of the two Books.
C10_Witness ==
  /\ \A p \in Procs : pc[p] = "idle"
  /\ \E a1, a2 \in authors :
       /\ a1.id # a2.id
       /\ a1.name = a2.name
       /\ Len(a1.books) = 1
       /\ Len(a2.books) = 1
       /\ a1.books # a2.books
       /\ \E b1, b2 \in books :
            /\ b1.id = a1.books[1] /\ b1.author = Some(a1.id)
            /\ b2.id = a2.books[1] /\ b2.author = Some(a2.id)

C8_AsStated ==
  (response.op = "allBooks" /\ response.args.author = None /\ response.args.genre # None)
    => /\ response.error = ""
       /\ {b.id : b \in response.value} =
            {b.id : b \in {x \in books :
                             \E i \in 1..Len(x.genres) : x.genres[i] = response.args.genre[1]}}

\* ---------------------------------------------------------------- C9
\* C9: bookCount returns the number of stored Books and authorCount the
\* number of stored Authors.
C9_AsStated ==
  /\ response.op = "bookCount"
       => response.error = "" /\ response.value = Cardinality(books)
  /\ response.op = "authorCount"
       => response.error = "" /\ response.value = Cardinality(authors)

====
